---- MODULE Spec2Model ----
(***************************************************************************)
(* Traffic Violation Detection System (app/main_plates.py, app/violations.py,*)
(* app/ocr.py, app/models.py, app/database.py).                            *)
(*                                                                         *)
(* Strings are sequences of one-character strings, so that strip(),        *)
(* upper(), startswith() and the substring test are computed, not assumed. *)
(* Optional values (None in the code) are <<>>, a present value v is <<v>>.*)
(***************************************************************************)
EXTENDS Integers, Sequences, FiniteSets, TLC

VARIABLES
    model,        \* main_plates.model: "loaded" or "none" (load failed at import)
    vehicles,     \* committed rows of table vehicles, in insertion order
    violations,   \* committed rows of table violations, in insertion order
    files,        \* the file system: set of absolute paths (sequences of components)
    req,          \* per request slot: the handler's local state between its steps
    out,          \* the response being sent to a client, NoResp when none is
    recorded,     \* history: per plate key, the rows add_violation has committed
    sessions      \* the store sessions get_db has made, and who holds which

vars == <<model, vehicles, violations, files, req, out, recorded, sessions>>

(***************************************************************************)
(* Bounds of the model.                                                    *)
(***************************************************************************)
MaxViolations == 2
MaxVehicles == 2
MaxPad == 1
MaxSessions == 3

None == <<>>
Some(x) == <<x>>

(***************************************************************************)
(* Python string operations.                                               *)
(***************************************************************************)
\* str.upper() on one character
upper_char(c) ==
    CASE c = "a" -> "A"
      [] c = "b" -> "B"
      [] c = "c" -> "C"
      [] c = "d" -> "D"
      [] OTHER -> c

\* str.lower() on one character (used to build inputs only)
lower_char(c) ==
    CASE c = "A" -> "a"
      [] c = "B" -> "b"
      [] c = "C" -> "c"
      [] c = "D" -> "d"
      [] OTHER -> c

\* str.upper()
upper(s) == [i \in 1..Len(s) |-> upper_char(s[i])]

\* str.isspace() on one character: the blank and the tab
isspace(c) == c \in {" ", "\t"}

RECURSIVE lstrip(_)
lstrip(s) == IF s # <<>> /\ isspace(Head(s)) THEN lstrip(Tail(s)) ELSE s

RECURSIVE rstrip(_)
rstrip(s) ==
    IF s # <<>> /\ isspace(s[Len(s)]) THEN rstrip(SubSeq(s, 1, Len(s) - 1)) ELSE s

\* str.strip()
strip(s) == rstrip(lstrip(s))

\* a normalisation that forgets strip()
upper_only(plate_number) == upper(plate_number)

\* plate_number.strip().upper(), as written at each of its uses
normalize_lookup_violations(plate_number) == upper(strip(plate_number))
normalize_add_violation(plate_number) == upper(strip(plate_number))
normalize_register_query(plate_number) == upper(strip(plate_number))
normalize_register_insert(plate_number) == upper(strip(plate_number))
normalize_vehicle_info(plate_number) == upper(strip(plate_number))


(***************************************************************************)
(* The record store (app/models.py) and the store functions                *)
(* (app/violations.py).  A session's add() followed by commit() makes the  *)
(* row visible at the commit; a failed commit is rolled back and leaves    *)
(* the committed tables as they were.  `raises` is the environment's       *)
(* choice that the database call throws (connectivity, server error).      *)
(***************************************************************************)
\* models.Violation: one committed row
Violation(id, plate_number, violation_type, violation_date, fine_amount) ==
    [id |-> id, plate_number |-> plate_number, violation_type |-> violation_type,
     violation_date |-> violation_date, fine_amount |-> fine_amount]

\* models.Vehicle: one committed row; kwargs carries the optional columns
Vehicle(id, plate_number, kwargs) ==
    [id |-> id, plate_number |-> plate_number,
     vehicle_type |-> kwargs.vehicle_type, color |-> kwargs.color,
     owner_name |-> kwargs.owner_name, owner_phone |-> kwargs.owner_phone,
     owner_email |-> kwargs.owner_email,
     is_active |-> TRUE]

\* a query answered from a snapshot taken before the latest commit
query_violations_stale(db_violations, key) ==
    SelectSeq(SubSeq(db_violations, 1, Len(db_violations) - 1),
              LAMBDA v : v.plate_number = key)

\* db.query(Violation).filter(Violation.plate_number == key).all()
query_violations(db_violations, key) ==
    SelectSeq(db_violations, LAMBDA v : v.plate_number = key)

\* db.query(Vehicle).filter(Vehicle.plate_number == key).first()
query_vehicle_first(db_vehicles, key) ==
    LET hits == SelectSeq(db_vehicles, LAMBDA v : v.plate_number = key)
    IN  IF hits = <<>> THEN None ELSE Some(Head(hits))

\* the loop with last_violation_date overwritten by every row
RECURSIVE accumulate_last_row(_, _, _)
accumulate_last_row(rows, total_fine, last_violation_date) ==
    IF rows = <<>>
    THEN [total_fine |-> total_fine, last_violation_date |-> last_violation_date]
    ELSE LET v == Head(rows)
             fine == IF v.fine_amount # None /\ v.fine_amount[1] # 0
                     THEN total_fine + v.fine_amount[1]
                     ELSE total_fine
         IN  accumulate_last_row(Tail(rows), fine, Some(v.violation_date))

\* the loop body of check_plate_violations, folded over the rows found
RECURSIVE accumulate(_, _, _)
accumulate(rows, total_fine, last_violation_date) ==
    IF rows = <<>>
    THEN [total_fine |-> total_fine, last_violation_date |-> last_violation_date]
    ELSE LET v == Head(rows)
             fine == IF v.fine_amount # None /\ v.fine_amount[1] # 0
                     THEN total_fine + v.fine_amount[1]
                     ELSE total_fine
             last == IF last_violation_date = None
                        \/ v.violation_date > last_violation_date[1]
                     THEN Some(v.violation_date)
                     ELSE last_violation_date
         IN  accumulate(Tail(rows), fine, last)

\* schemas.ViolationCheckResult
ViolationCheckResult(plate_number, rows, total_fine, last_violation_date, logged) ==
    [plate_number |-> plate_number,
     has_violations |-> Len(rows) > 0,
     violation_count |-> Len(rows),
     violations |-> rows,
     total_fine |-> total_fine,
     last_violation_date |-> last_violation_date,
     logged |-> logged]

\* a lookup whose except branch answers with the rows of a retried query
check_plate_violations_retries(db_violations, plate_number, raises) ==
    LET rows == query_violations(db_violations, upper(strip(plate_number)))
    IN  ViolationCheckResult(upper(strip(plate_number)), rows,
                             accumulate(rows, 0, None).total_fine,
                             accumulate(rows, 0, None).last_violation_date,
                             IF raises THEN "error" ELSE "checked")

\* violations.check_plate_violations; `logged` is the line it writes to the log
check_plate_violations(db_violations, plate_number, raises) ==
    LET key == normalize_lookup_violations(plate_number)
        rows == query_violations(db_violations, key)
        acc == accumulate(rows, 0, None)
    IN  IF raises
        THEN ViolationCheckResult(key, <<>>, 0, None, "error")
        ELSE ViolationCheckResult(key, rows, acc.total_fine,
                                  acc.last_violation_date, "checked")

\* where a write may fail: nowhere, at db.add/db.commit (nothing is
\* committed), or at db.refresh (the commit before it stands)
WriteFaults == {"none", "commit", "refresh"}

\* an add_violation whose handler forgets db.rollback(): the pending row is
\* committed with the session's next commit
add_violation_without_rollback(db_violations, plate_number, violation_type, violation_date, fine_amount, raises) ==
    [table |-> Append(db_violations,
                      Violation(Len(db_violations) + 1, upper(strip(plate_number)),
                                violation_type, violation_date, fine_amount)),
     success |-> raises = "none",
     message |-> IF raises = "none" THEN "Violation recorded"
                 ELSE "Error: OperationalError",
     id |-> IF raises = "none" THEN Len(db_violations) + 1 ELSE 0]

\* violations.add_violation: the committed table and the (success, message)
\* returned
add_violation(db_violations, plate_number, violation_type, violation_date, fine_amount, raises) ==
    LET violation == Violation(Len(db_violations) + 1,
                               normalize_add_violation(plate_number),
                               violation_type, violation_date, fine_amount)
    IN  IF raises = "commit"
        THEN [table |-> db_violations, success |-> FALSE,
              message |-> "Error: OperationalError", id |-> 0]
        ELSE IF raises = "refresh"
        THEN [table |-> Append(db_violations, violation), success |-> FALSE,
              message |-> "Error: OperationalError", id |-> 0]
        ELSE [table |-> Append(db_violations, violation), success |-> TRUE,
              message |-> "Violation recorded", id |-> violation.id]

\* violations.register_vehicle, lines 123-128: the existence query
register_vehicle_existing(db_vehicles, plate_number) ==
    query_vehicle_first(db_vehicles, normalize_register_query(plate_number))

\* the column declared without unique=True
not_unique_plate_number(db_vehicles, row) == TRUE

\* the UNIQUE index on vehicles.plate_number (models.Vehicle)
unique_plate_number(db_vehicles, row) ==
    \A i \in 1..Len(db_vehicles) : db_vehicles[i].plate_number # row.plate_number

\* violations.register_vehicle, lines 130-145: insert, commit, or roll back
register_vehicle_insert(db_vehicles, plate_number, kwargs, raises) ==
    LET vehicle == Vehicle(Len(db_vehicles) + 1,
                           normalize_register_insert(plate_number), kwargs)
    IN  IF raises = "commit"
        THEN [table |-> db_vehicles, success |-> FALSE,
              message |-> "Error: OperationalError", id |-> 0]
        ELSE IF ~unique_plate_number(db_vehicles, vehicle)
        THEN [table |-> db_vehicles, success |-> FALSE,
              message |-> "Error: IntegrityError", id |-> 0]
        ELSE IF raises = "refresh"
        THEN [table |-> Append(db_vehicles, vehicle), success |-> FALSE,
              message |-> "Error: OperationalError", id |-> 0]
        ELSE [table |-> Append(db_vehicles, vehicle), success |-> TRUE,
              message |-> "Vehicle registered", id |-> vehicle.id]

\* violations.get_vehicle_info
get_vehicle_info(db_vehicles, plate_number, raises) ==
    LET found == query_vehicle_first(db_vehicles,
                                     normalize_vehicle_info(plate_number))
    IN  IF raises
        THEN [found |-> FALSE, error |-> "OperationalError"]
        ELSE IF found # None
        THEN LET vehicle == found[1]
             IN  [found |-> TRUE, id |-> vehicle.id,
                  plate_number |-> vehicle.plate_number,
                  vehicle_type |-> vehicle.vehicle_type,
                  color |-> vehicle.color,
                  owner_name |-> vehicle.owner_name,
                  owner_phone |-> vehicle.owner_phone,
                  is_active |-> vehicle.is_active]
        ELSE [found |-> FALSE, plate_number |-> plate_number]


(***************************************************************************)
(* Text recognition (app/ocr.py).  A confidence is a fraction num/den of   *)
(* percent points, so that the mean is exact.                              *)
(***************************************************************************)
Min(a, b) == IF a < b THEN a ELSE b
Max(a, b) == IF a > b THEN a ELSE b

\* ' '.join(text.split()): runs of blanks become one blank, none at the ends
RECURSIVE join_split(_)
join_split(s) ==
    LET t == lstrip(s)
    IN  IF t = <<>> THEN <<>>
        ELSE IF Len(t) >= 2 /\ ~isspace(t[1]) /\ isspace(t[2])
        THEN LET rest == join_split(SubSeq(t, 2, Len(t)))
             IN  IF rest = <<>> THEN <<t[1]>> ELSE <<t[1], " ">> \o rest
        ELSE <<t[1]>> \o join_split(Tail(t))

\* a cleaning that trims and uppercases but keeps the runs of blanks
_clean_plate_text_keeps_runs(text) == upper(strip(text))

\* PlateOCR._clean_plate_text
_clean_plate_text(text) == upper(join_split(strip(text)))

\* the loop of read_plate_from_crop over the spans the reader returned
RECURSIVE read_spans(_, _, _)
read_spans(results, plate_text, confidence) ==
    IF results = <<>>
    THEN [plate_text |-> plate_text, confidence |-> confidence]
    ELSE LET text == strip(Head(results).text)
             joined == IF text # <<>> THEN plate_text \o text \o <<" ">>
                       ELSE plate_text
         IN  read_spans(Tail(results), joined, confidence + Head(results).conf)

\* PlateOCR.read_plate_from_crop, given what reader.readtext returned for the
\* preprocessed crop; `raises` is the reader or the preprocessing throwing
read_plate_from_crop(results, raises) ==
    IF raises \/ results = <<>>
    THEN [text |-> <<>>, num |-> 0, den |-> 1]
    ELSE LET acc == read_spans(results, <<>>, 0)
         IN  [text |-> _clean_plate_text(strip(acc.plate_text)),
              num |-> acc.confidence, den |-> Len(results)]

isalpha(c) == c \in {"A", "B", "C", "D", "a", "b", "c", "d"}
isdigit(c) == c \in {"0", "1", "2", "3", "4", "5", "6", "7", "8", "9"}

\* plate_text.replace('-', '').replace(' ', '')
remove_separators(s) == SelectSeq(s, LAMBDA c : c # "-" /\ c # " ")

\* a validation that forgets the digit requirement
validate_plate_letters_only(plate_text) ==
    LET cleaned == remove_separators(plate_text)
    IN  /\ ~(Len(cleaned) < 4 \/ Len(cleaned) > 10)
        /\ \E i \in 1..Len(cleaned) : isalpha(cleaned[i])

\* a validation that measures the text with its hyphens and spaces
validate_plate_counts_separators(plate_text) ==
    /\ ~(Len(plate_text) < 4 \/ Len(plate_text) > 10)
    /\ (\E i \in 1..Len(plate_text) : isalpha(plate_text[i]))
    /\ (\E i \in 1..Len(plate_text) : isdigit(plate_text[i]))

\* PlateOCR.validate_plate
validate_plate(plate_text) ==
    LET cleaned == remove_separators(plate_text)
    IN  /\ ~(Len(cleaned) < 4 \/ Len(cleaned) > 10)
        /\ (\E i \in 1..Len(cleaned) : isalpha(cleaned[i]))
        /\ (\E i \in 1..Len(cleaned) : isdigit(cleaned[i]))

\* a gate that also turns away a confidence of exactly 0.35
gate_rejects_at_threshold(reading) ==
    reading.text = <<>> \/ reading.num <= 35 * reading.den

\* the confidence gate of detect_plates: not plate_text or ocr_conf < 0.35,
\* the confidence being num/den percent points
gate_rejects(reading) == reading.text = <<>> \/ reading.num < 35 * reading.den

(***************************************************************************)
(* Region extraction (detect_plates, lines 275-337).  Coordinates are      *)
(* whole pixels; a region is the slice image[y0:y1, x0:x1].                *)
(***************************************************************************)
\* a size filter that also drops a box of exactly the minimum size
too_small_or_equal(box, h, w) ==
    \/ (box.x2 - box.x1) * 100 <= Min(h, w) * 5
    \/ (box.y2 - box.y1) * 100 <= Min(h, w) * 5

\* box_width < min_size or box_height < min_size, min_size = min(h, w) * 0.05
too_small(box, h, w) ==
    \/ (box.x2 - box.x1) * 100 < Min(h, w) * 5
    \/ (box.y2 - box.y1) * 100 < Min(h, w) * 5

\* the mask path: the bounding box of the mask's positive pixels, padded by 5
mask_region(mask, h, w) ==
    [y0 |-> Max(0, mask.y_min - 5), y1 |-> Min(h, mask.y_max + 5),
     x0 |-> Max(0, mask.x_min - 5), x1 |-> Min(w, mask.x_max + 5)]

\* a box path padded by a tenth of the box's width alone
box_region_pads_by_width(box, h, w) ==
    LET padding == (box.x2 - box.x1) \div 10
    IN  [y0 |-> Max(0, box.y1 - padding), y1 |-> Min(h, box.y2 + padding),
         x0 |-> Max(0, box.x1 - padding), x1 |-> Min(w, box.x2 + padding)]

\* the box path: padding = int(max(box_width, box_height) * 0.1)
box_region(box, h, w) ==
    LET padding == (Max(box.x2 - box.x1, box.y2 - box.y1)) \div 10
    IN  [y0 |-> Max(0, box.y1 - padding), y1 |-> Min(h, box.y2 + padding),
         x0 |-> Max(0, box.x1 - padding), x1 |-> Min(w, box.x2 + padding)]

\* lines 296-332: the mask path when the detection has a usable mask, else
\* the box path.  mask.kind is "none" (masks is None or too short), "raises"
\* (extraction throws), "empty" (no positive pixel) or "pixels".
plate_region(det, h, w) ==
    IF det.mask.kind = "pixels" THEN mask_region(det.mask, h, w)
    ELSE box_region(det.box, h, w)

\* a size that is never zero
region_size_at_least_one(region) ==
    Max(1, (region.y1 - region.y0) * (region.x1 - region.x0))

\* plate_region.size of a numpy slice
region_size(region) ==
    Max(0, region.y1 - region.y0) * Max(0, region.x1 - region.x0)

(***************************************************************************)
(* Files.  A name is a sequence of pieces: "." and "/" are single          *)
(* characters, every other piece is a run of characters holding neither.   *)
(* A path is the sequence of names from the root down to the file.         *)
(***************************************************************************)
\* Path(__file__).parent.parent / "results"
RESULTS_DIR == << <<"srv">>, <<"results">> >>

\* f"plate_{idx}_{datetime.now().strftime('%Y%m%d_%H%M%S')}.jpg"
cropped_filename(idx, now) == <<"plate_", ToString(idx), "_", ToString(now), ".", "jpg">>

\* f"plate_detection_{datetime.now().strftime('%Y%m%d_%H%M%S')}.jpg"
annotated_filename(now) == <<"plate_detection_", ToString(now), ".", "jpg">>

(***************************************************************************)
(* Inputs.  A raw plate is a base plate in any letter case with up to      *)
(* MaxPad blanks before and after it.                                      *)
(***************************************************************************)
BasePlates == { <<"A", "1", "2", "3">>, <<"B", "7", " ", "4", "5">> }

Blanks(n) == [i \in 1..n |-> " "]

CaseVariants(base) ==
    { s \in [1..Len(base) -> {"A", "a", "B", "b", "1", "2", "3", "4", "5", "7", " "}] :
        \A i \in 1..Len(base) : s[i] \in {base[i], lower_char(base[i])} }

RawPlates ==
    { Blanks(l) \o v \o Blanks(r) :
        l \in 0..MaxPad, r \in 0..MaxPad,
        v \in UNION { CaseVariants(b) : b \in BasePlates } }

\* the query parameters of POST /vehicles/register other than the plate
KwargsAna ==
    [vehicle_type |-> Some("car"), color |-> Some("red"),
     owner_name |-> Some("Ana"), owner_phone |-> Some("555"),
     owner_email |-> Some("ana@x")]

KwargsBen ==
    [vehicle_type |-> None, color |-> None, owner_name |-> Some("Ben"),
     owner_phone |-> None, owner_email |-> None]

FineAmounts == {None, Some(50), Some(75)}
\* readings of datetime.now(): local wall-clock time, not monotonic
Clock == {1, 2}

Req == {"r1", "r2"}

Idle == [pc |-> "idle"]
NoResp == [op |-> "none"]

\* no session made yet: `made` holds the sessions SessionLocal() has returned,
\* in order, each open or closed; db[r] is the place in `made` of the session
\* get_db yielded to request r, 0 when r holds none
NoSessions == [made |-> <<>>, db |-> [r \in Req |-> 0]]

\* the key a plate stands for: trimmed, upper case
Key(plate_number) == upper(strip(plate_number))

\* what is on the disk before any request: main.py beside the results
\* directory (Path(__file__).parent.parent holds both) and a file elsewhere
InstalledFiles ==
    [path \in { << <<"srv">>, <<"main", ".", "py">> >>,
                 << <<"etc">>, <<"passwd">> >> } |-> "installed"]

\* a write that leaves the disk as it was
imwrite_discards(fs, path, content) == fs

\* cv2.imwrite(path, content): creates the file or overwrites it
imwrite(fs, path, content) ==
    [q \in DOMAIN fs \cup {path} |-> IF q = path THEN content ELSE fs[q]]

(***************************************************************************)
(* The store endpoints of app/main_plates.py.  A handler that answers      *)
(* puts its response in `out`, beside the plate_number the request came    *)
(* with; the server sends it (Deliver) before the next handler step is     *)
(* taken, so `out` is always read against the store the handler left.      *)
(***************************************************************************)
\* GET /violations/check/{plate_number}
check_violations(plate_number, raises) ==
    /\ out = NoResp
    /\ out' = [op |-> "check_violations", plate_number |-> plate_number,
               body |-> check_plate_violations(violations, plate_number, raises)]
    /\ UNCHANGED <<model, vehicles, violations, files, req, recorded, sessions>>

\* POST /violations/add
add_new_violation(plate_number, violation_type, fine_amount, now, raises) ==
    /\ out = NoResp
    /\ Len(violations) < MaxViolations
    /\ LET r == add_violation(violations, plate_number, violation_type, now,
                              fine_amount, raises)
       IN  /\ violations' = r.table
           /\ out' = [op |-> "add_new_violation", plate_number |-> plate_number,
                      success |-> r.success, message |-> r.message, id |-> r.id,
                      raised |-> raises]
           /\ recorded' = IF Len(r.table) > Len(violations)
                          THEN [recorded EXCEPT ![Key(plate_number)] = @ + 1]
                          ELSE recorded
    /\ UNCHANGED <<model, vehicles, files, req, sessions>>

\* POST /vehicles/register, up to the existence query of register_vehicle
register_new_vehicle(r, plate_number, kwargs, raises) ==
    /\ out = NoResp
    /\ req[r] = Idle
    /\ Len(vehicles) < MaxVehicles
    /\ IF raises
       THEN /\ out' = [op |-> "register_new_vehicle", plate_number |-> plate_number,
                       success |-> FALSE,
                       message |-> "Error: OperationalError", id |-> 0,
                       raised |-> "query"]
            /\ req' = req
       ELSE IF register_vehicle_existing(vehicles, plate_number) # None
       THEN /\ out' = [op |-> "register_new_vehicle", plate_number |-> plate_number,
                       success |-> FALSE,
                       message |-> "Vehicle already registered", id |-> 0,
                       raised |-> "none"]
            /\ req' = req
       ELSE /\ out' = out
            /\ req' = [req EXCEPT ![r] = [pc |-> "register_insert",
                                          plate_number |-> plate_number,
                                          kwargs |-> kwargs]]
    /\ UNCHANGED <<model, vehicles, violations, files, recorded, sessions>>

\* POST /vehicles/register, the insert and commit of register_vehicle
register_new_vehicle_commit(r, raises) ==
    /\ out = NoResp
    /\ req[r].pc = "register_insert"
    /\ LET res == register_vehicle_insert(vehicles, req[r].plate_number,
                                          req[r].kwargs, raises)
       IN  /\ vehicles' = res.table
           /\ out' = [op |-> "register_new_vehicle",
                      plate_number |-> req[r].plate_number,
                      success |-> res.success, message |-> res.message,
                      id |-> res.id, raised |-> raises]
    /\ req' = [req EXCEPT ![r] = Idle]
    /\ UNCHANGED <<model, violations, files, recorded, sessions>>

\* GET /vehicles/info/{plate_number}
get_vehicle(plate_number, raises) ==
    /\ out = NoResp
    /\ out' = [op |-> "get_vehicle", plate_number |-> plate_number,
               body |-> get_vehicle_info(vehicles, plate_number, raises)]
    /\ UNCHANGED <<model, vehicles, violations, files, req, recorded, sessions>>

\* GET /database/status
database_status(raises) ==
    /\ out = NoResp
    /\ out' = IF raises
              THEN [op |-> "database_status", status |-> "error",
                    total_vehicles |-> 0, total_violations |-> 0]
              ELSE [op |-> "database_status", status |-> "connected",
                    total_vehicles |-> Len(vehicles),
                    total_violations |-> Len(violations)]
    /\ UNCHANGED <<model, vehicles, violations, files, req, recorded, sessions>>

\* the response leaves the server
Deliver ==
    /\ out # NoResp
    /\ out' = NoResp
    /\ UNCHANGED <<model, vehicles, violations, files, req, recorded, sessions>>

(***************************************************************************)
(* The violation ledger: POST /violations/add and GET /violations/check    *)
(* against an initially empty table.                                       *)
(***************************************************************************)
InitEmpty ==
    /\ model = "loaded"
    /\ vehicles = <<>>
    /\ violations = <<>>
    /\ files = InstalledFiles
    /\ req = [r \in Req |-> Idle]
    /\ out = NoResp
    /\ sessions = NoSessions
    /\ recorded = [k \in {Key(p) : p \in RawPlates} |-> 0]

NextLedger ==
    \/ \E p \in RawPlates, raises \in BOOLEAN : check_violations(p, raises)
    \/ \E p \in RawPlates, f \in FineAmounts, now \in Clock, raises \in WriteFaults :
          add_new_violation(p, "speeding", f, now, raises)
    \/ Deliver

SpecLedger == InitEmpty /\ [][NextLedger]_vars

(***************************************************************************)
(* The vehicle registry: POST /vehicles/register from two concurrent       *)
(* requests, GET /vehicles/info and GET /database/status.                  *)
(***************************************************************************)
NextRegistry ==
    \/ \E r \in Req, p \in RawPlates, raises \in BOOLEAN :
          register_new_vehicle(r, p, KwargsAna, raises)
    \/ \E r \in Req, raises \in WriteFaults : register_new_vehicle_commit(r, raises)
    \/ \E p \in RawPlates, raises \in BOOLEAN : get_vehicle(p, raises)
    \/ \E raises \in BOOLEAN : database_status(raises)
    \/ Deliver

SpecRegistry == InitEmpty /\ [][NextRegistry]_vars

(***************************************************************************)
(* Both tables together: the two write endpoints, one request at a time on *)
(* each, the violations written with one fine and one date.                *)
(***************************************************************************)
NextStore ==
    \/ \E p \in RawPlates, raises \in WriteFaults :
          add_new_violation(p, "speeding", Some(50), 1, raises)
    \/ \E p \in RawPlates, raises \in BOOLEAN :
          register_new_vehicle("r1", p, KwargsAna, raises)
    \/ \E raises \in WriteFaults : register_new_vehicle_commit("r1", raises)
    \/ Deliver

SpecStore == InitEmpty /\ [][NextStore]_vars

(***************************************************************************)
(* Properties of the record store.                                         *)
(***************************************************************************)
\* the rows of a table whose plate_number is the given key
Matching(table, key) == { i \in 1..Len(table) : table[i].plate_number = key }

RECURSIVE SumOfFines(_, _)
SumOfFines(table, rows) ==
    IF rows = {} THEN 0
    ELSE LET i == CHOOSE j \in rows : TRUE
             fine == IF table[i].fine_amount = None THEN 0
                     ELSE table[i].fine_amount[1]
         IN  fine + SumOfFines(table, rows \ {i})

LatestDate(table, rows) ==
    IF rows = {} THEN None
    ELSE Some(CHOOSE d \in { table[i].violation_date : i \in rows } :
                \A i \in rows : table[i].violation_date <= d)

\* C2: every summary returned by a lookup whose query did not fail carries the
\* number of rows stored under the normalized key, has_violations true exactly
\* when that number is positive, the sum of their fine_amount (null as 0) and
\* the latest of their violation_date (null when there is no row).
C2_SummaryAggregatesMatchingRows ==
    (out.op = "check_violations" /\ out.body.logged = "checked") =>
        LET rows == Matching(violations, Key(out.plate_number))
        IN  /\ out.body.violation_count = Cardinality(rows)
            /\ out.body.has_violations = (Cardinality(rows) > 0)
            /\ out.body.total_fine = SumOfFines(violations, rows)
            /\ out.body.last_violation_date = LatestDate(violations, rows)

\* C2 witness: two rows of one plate, fines 50 and 75, the later date stored first
C2_Witness ==
    /\ out.op = "check_violations"
    /\ out.body.logged = "checked"
    /\ out.body.violation_count = 2
    /\ out.body.total_fine = 125
    /\ out.body.last_violation_date = Some(2)
    /\ violations[1].violation_date = 2
    /\ violations[2].violation_date = 1

\* C6: a lookup whose query did not fail counts exactly the rows add_violation
\* has committed for the plate's key up to that moment.
C6_LookupCountsEveryRecordedViolation ==
    (out.op = "check_violations" /\ out.body.logged = "checked") =>
        out.body.violation_count = recorded[Key(out.plate_number)]

\* C6 witness: a lookup answered 1 has been followed by another add and the
\* next lookup answers 2
C6_Witness ==
    /\ out.op = "check_violations"
    /\ out.body.logged = "checked"
    /\ out.body.violation_count = 2
    /\ recorded[Key(out.plate_number)] = 2

\* C3: right after a violation is added with plate p, a lookup with any q of
\* the same key counts it; right after a vehicle is registered with plate p,
\* get_vehicle_info with any q of the same key finds that vehicle.
C3_InsertAndLookupNormalizeAlike ==
    /\ (out.op = "add_new_violation" /\ out.success) =>
          \A q \in RawPlates :
              Key(q) = Key(out.plate_number) =>
                  LET found == check_plate_violations(violations, q, FALSE)
                  IN  /\ found.has_violations
                      /\ found.violation_count = recorded[Key(q)]
                      /\ \E i \in 1..Len(found.violations) :
                            found.violations[i].id = out.id
    /\ (out.op = "register_new_vehicle" /\ out.success) =>
          \A q \in RawPlates :
              Key(q) = Key(out.plate_number) =>
                  LET info == get_vehicle_info(vehicles, q, FALSE)
                  IN  info.found /\ info.id = out.id

\* C3 witness: a violation added under a padded lower-case plate while a
\* vehicle is registered
C3_Witness ==
    /\ out.op = "add_new_violation"
    /\ out.success
    /\ out.plate_number = <<" ", "a", "1", "2", "3", " ">>
    /\ vehicles # <<>>

KeyPresent(table, key) == \E i \in 1..Len(table) : table[i].plate_number = key

\* C4: a register_vehicle call that starts while its key is in vehicles never
\* goes on to insert; it answers success=false at once, with the message
\* "Vehicle already registered" unless the query itself failed, and vehicles
\* is left as it was.
C4_DuplicateRegistrationRefused ==
    [][\A r \in Req :
          /\ (req[r] = Idle /\ req'[r] # Idle /\ req'[r].pc = "register_insert") =>
                ~KeyPresent(vehicles, Key(req'[r].plate_number))
          /\ (/\ out = NoResp
              /\ out'.op = "register_new_vehicle"
              /\ req' = req
              /\ KeyPresent(vehicles, Key(out'.plate_number))) =>
                /\ ~out'.success
                /\ vehicles' = vehicles
                /\ (out'.message # "Error: OperationalError" =>
                       out'.message = "Vehicle already registered")]_vars

\* C4 witness: a padded lower-case variant of a stored plate is refused
C4_Witness ==
    /\ out.op = "register_new_vehicle"
    /\ out.message = "Vehicle already registered"
    /\ out.plate_number = <<" ", "a", "1", "2", "3", " ">>
    /\ Len(vehicles) = 1
    /\ vehicles[1].plate_number = <<"A", "1", "2", "3">>

\* C5: vehicles never holds two rows with the same key, and a call that comes
\* to its insert after another call has committed the key answers
\* success=false and changes nothing.
C5_ConcurrentRegistrationsKeepKeysUnique ==
    [][/\ \A i, j \in 1..Len(vehicles') :
             Key(vehicles'[i].plate_number) = Key(vehicles'[j].plate_number) => i = j
       /\ \A r \in Req :
             (/\ req[r].pc = "register_insert"
              /\ req'[r] = Idle
              /\ KeyPresent(vehicles, Key(req[r].plate_number))) =>
                /\ out'.op = "register_new_vehicle"
                /\ ~out'.success
                /\ vehicles' = vehicles]_vars

\* C5 witness: the loser of a race is answered with the store's refusal while
\* the winner's row is the only one
C5_Witness ==
    /\ out.op = "register_new_vehicle"
    /\ out.message = "Error: IntegrityError"
    /\ ~out.success
    /\ Len(vehicles) = 1
    /\ vehicles[1].plate_number = Key(out.plate_number)

(***************************************************************************)
(* POST /detect-plates (app/main_plates.py, detect_plates).  The handler   *)
(* is followed step by step: entry (model check, upload, decode, predict), *)
(* then per detection the region extraction with the crop file, the text   *)
(* recognition with its two filters, the violation lookup, the owner       *)
(* lookup with the record, and at last the annotated image and the answer. *)
(* `calls` is the history of what the request has invoked so far; the     *)
(* answer carries it beside the upload and the detections it answers.     *)
(* `logged` is the line the request wrote to the log last.                 *)
(***************************************************************************)
\* the decoded image: image.shape[:2]
Image == [h |-> 100, w |-> 200]

NoMask == [kind |-> "none"]
Box(x1, y1, x2, y2) == [x1 |-> x1, y1 |-> y1, x2 |-> x2, y2 |-> y2]

\* detections the oracle may return: too small, box only, with a mask, with a
\* mask whose extraction throws, and a box lying beside the image
TooSmall == [box |-> Box(10, 10, 14, 40), mask |-> NoMask]
BoxOnly == [box |-> Box(20, 20, 80, 50), mask |-> NoMask]
Masked ==
    [box |-> Box(20, 20, 80, 50),
     mask |-> [kind |-> "pixels", y_min |-> 22, y_max |-> 48,
               x_min |-> 3, x_max |-> 75]]
MaskRaises == [box |-> Box(120, 60, 180, 98), mask |-> [kind |-> "raises"]]
OffImage == [box |-> Box(210, 20, 260, 50), mask |-> NoMask]
\* a box whose width is exactly 5% of min(h, w)
AtThreshold == [box |-> Box(30, 30, 35, 60), mask |-> NoMask]

\* results[0].boxes of one prediction
BoxLists ==
    { <<>>, <<BoxOnly>>, <<TooSmall, Masked>>, <<Masked, BoxOnly>>,
      <<OffImage, MaskRaises>>, <<BoxOnly, TooSmall>>, <<AtThreshold>> }

Span(text, conf) == [text |-> text, conf |-> conf]

\* what reader.readtext may return for a crop
Readings ==
    { <<>>,
      << Span(<<"A", "1", "2", "3">>, 90) >>,
      << Span(<<" ", "b", "7", " ">>, 80), Span(<<"4", "5">>, 60) >>,
      << Span(<<"A", "1", "2", "3">>, 35) >>,
      << Span(<<"A", "A", "A", "A">>, 90) >>,
      << Span(<<" ", " ">>, 90) >>,
      << Span(<<"A", "1", "2", "3">>, 60), Span(<<" ">>, 0) >> }

Uploads == {"jpeg", "garbage"}

\* dict.get(key, default)
Get(d, key, default) == IF key \in DOMAIN d THEN d[key] ELSE default

\* a record whose alert is raised only from the second violation on
plate_result_alerts_repeat(idx, det, reading, cropped, found, vehicle_info) ==
    [id |-> idx,
     plate_number |-> reading.text,
     ocr_confidence |-> [num |-> reading.num, den |-> reading.den],
     violations |-> [has_violations |-> found.has_violations,
                     violation_count |-> found.violation_count],
     alert_status |->
        [is_flagged |-> found.has_violations,
         alert_level |-> IF found.violation_count > 1 THEN "high" ELSE "normal",
         message |-> <<ToString(found.violation_count), " violations found">>]]

\* lines 366-415: the record of one plate
plate_result(idx, det, reading, cropped, found, vehicle_info) ==
    [id |-> idx,
     plate_number |-> reading.text,
     detection_confidence |-> 90,
     ocr_confidence |-> [num |-> reading.num, den |-> reading.den],
     cropped_plate_image |-> cropped,
     bbox |-> det.box,
     violations |->
        [has_violations |-> found.has_violations,
         violation_count |-> found.violation_count,
         total_fine |-> found.total_fine,
         is_flagged |-> found.has_violations,
         last_violation_date |-> found.last_violation_date,
         violation_details |->
            [i \in 1..Len(found.violations) |->
                [id |-> found.violations[i].id,
                 type |-> found.violations[i].violation_type,
                 date |-> found.violations[i].violation_date,
                 fine_amount |-> found.violations[i].fine_amount]]],
     owner_info |->
        [found |-> Get(vehicle_info, "found", FALSE),
         owner_name |-> Get(vehicle_info, "owner_name", None),
         owner_id |-> Get(vehicle_info, "id", None),
         owner_phone |-> Get(vehicle_info, "owner_phone", None),
         owner_email |-> Get(vehicle_info, "owner_email", None),
         vehicle_type |-> Get(vehicle_info, "vehicle_type", None),
         vehicle_color |-> Get(vehicle_info, "color", None),
         is_active |-> Get(vehicle_info, "is_active", TRUE)],
     alert_status |->
        [is_flagged |-> found.has_violations,
         alert_level |-> IF found.has_violations THEN "high" ELSE "normal",
         message |-> IF found.has_violations
                     THEN <<ToString(found.violation_count), " violations found">>
                     ELSE <<"No violations">>]]

\* the HTTPException the handler of request r ends with
Failure(r, upload, status, detail, calls) ==
    [op |-> "detect_plates", by |-> r, upload |-> upload, status |-> status,
     detail |-> detail, calls |-> calls]

\* `continue`, or the end of the loop over the boxes
next_detection(state) ==
    [state EXCEPT !.idx = @ + 1,
                  !.pc = IF state.idx + 1 < Len(state.boxes)
                         THEN "extract" ELSE "finish"]

\* a service whose startup never leaves the model unset
model_always_loaded == FALSE

\* line 246: if model is None (lines 61-68 leave it None when loading fails)
model_is_None == model = "none"

\* lines 246-273: entry.  raise HTTPException(400) stands inside the try
\* whose except Exception turns whatever is raised into a 500.
detect_plates(r, upload, boxes, raises) ==
    /\ out = NoResp
    /\ req[r] = Idle
    /\ IF model_is_None
       THEN /\ out' = Failure(r, upload, 503, "Model not loaded", {})
            /\ req' = req
       ELSE IF upload = "garbage"
       THEN /\ out' = Failure(r, upload, 500, "Detection error",
                              {"read", "imdecode"})
            /\ req' = req
       ELSE IF raises
       THEN /\ out' = Failure(r, upload, 500, "Detection error",
                              {"read", "imdecode", "predict"})
            /\ req' = req
       ELSE /\ out' = out
            /\ req' = [req EXCEPT ![r] =
                         [pc |-> IF Len(boxes) > 0 THEN "extract" ELSE "finish",
                          upload |-> upload, boxes |-> boxes, idx |-> 0,
                          plates_detected |-> <<>>, cropped_filename |-> <<>>,
                          reading |-> [text |-> <<>>, num |-> 0, den |-> 1],
                          found |-> <<>>,
                          calls |-> {"read", "imdecode", "predict"},
                          logged |-> ""]]
    /\ UNCHANGED <<model, vehicles, violations, files, recorded, sessions>>

\* lines 275-344: size filter, region, empty-region guard, crop file
detect_extract(r, now) ==
    /\ out = NoResp
    /\ req[r].pc = "extract"
    /\ LET st == req[r]
           det == st.boxes[st.idx + 1]
           region == plate_region(det, Image.h, Image.w)
           name == cropped_filename(st.idx, now)
       IN  IF too_small(det.box, Image.h, Image.w)
           THEN /\ req' = [req EXCEPT ![r] =
                             next_detection([st EXCEPT !.logged =
                                                "Skipping small detection"])]
                /\ files' = files
           ELSE IF region_size(region) = 0
           THEN /\ req' = [req EXCEPT ![r] =
                             next_detection([st EXCEPT !.calls = @ \cup {"crop"},
                                                !.logged = "Plate region is empty, skipping"])]
                /\ files' = files
           ELSE /\ files' = imwrite(files, Append(RESULTS_DIR, name),
                                    [by |-> r, idx |-> st.idx])
                /\ req' = [req EXCEPT ![r] =
                             [st EXCEPT !.pc = "ocr", !.cropped_filename = name,
                                        !.calls = @ \cup {"crop", "imwrite"},
                                        !.logged = "Saved cropped plate"]]
    /\ UNCHANGED <<model, vehicles, violations, out, recorded, sessions>>

\* lines 346-357: text recognition, confidence gate, format validation
detect_ocr(r, results, raises) ==
    /\ out = NoResp
    /\ req[r].pc = "ocr"
    /\ LET st == req[r]
           reading == read_plate_from_crop(results, raises)
           read == [st EXCEPT !.reading = reading, !.calls = @ \cup {"ocr"}]
       IN  IF gate_rejects(reading)
           THEN req' = [req EXCEPT ![r] =
                          next_detection([read EXCEPT !.logged =
                                             "Skipping low OCR confidence"])]
           ELSE IF ~validate_plate(reading.text)
           THEN req' = [req EXCEPT ![r] =
                          next_detection([read EXCEPT !.logged =
                                             "Invalid plate format"])]
           ELSE req' = [req EXCEPT ![r] = [read EXCEPT !.pc = "check"]]
    /\ UNCHANGED <<model, vehicles, violations, files, out, recorded, sessions>>

\* a violation lookup made only for plates with a registered vehicle
detect_check_registered_only(r, raises) ==
    /\ out = NoResp
    /\ req[r].pc = "check"
    /\ req' = [req EXCEPT ![r] =
                 [req[r] EXCEPT
                    !.pc = "info",
                    !.found = check_plate_violations(
                                 IF query_vehicle_first(vehicles,
                                        upper(strip(req[r].reading.text))) = None
                                 THEN <<>> ELSE violations,
                                 req[r].reading.text, raises),
                    !.calls = @ \cup {"check_plate_violations"}]]
    /\ UNCHANGED <<model, vehicles, violations, files, out, recorded, sessions>>

\* lines 359-360: the violation lookup
detect_check(r, raises) ==
    /\ out = NoResp
    /\ req[r].pc = "check"
    /\ LET st == req[r]
       IN  req' = [req EXCEPT ![r] =
                     [st EXCEPT !.pc = "info",
                                !.found = check_plate_violations(
                                              violations, st.reading.text, raises),
                                !.calls = @ \cup {"check_plate_violations"}]]
    /\ UNCHANGED <<model, vehicles, violations, files, out, recorded, sessions>>

\* an owner lookup that retires the vehicles it reads
detect_info_retires(r, raises) ==
    /\ out = NoResp
    /\ req[r].pc = "info"
    /\ req' = [req EXCEPT ![r] = next_detection(req[r])]
    /\ vehicles' = [i \in DOMAIN vehicles |-> [vehicles[i] EXCEPT !.is_active = FALSE]]
    /\ UNCHANGED <<model, violations, files, out, recorded, sessions>>

\* lines 362-417: the owner lookup and the record appended
detect_info(r, raises) ==
    /\ out = NoResp
    /\ req[r].pc = "info"
    /\ LET st == req[r]
           vehicle_info == get_vehicle_info(vehicles, st.reading.text, raises)
           result == plate_result(st.idx, st.boxes[st.idx + 1], st.reading,
                                  st.cropped_filename, st.found, vehicle_info)
       IN  req' = [req EXCEPT ![r] =
                     next_detection(
                        [st EXCEPT !.plates_detected = Append(@, result),
                                   !.calls = @ \cup {"get_vehicle_info"}])]
    /\ UNCHANGED <<model, vehicles, violations, files, out, recorded, sessions>>

\* an answer that counts the detections instead of the records
detect_finish_counts_boxes(r, now, raises) ==
    /\ out = NoResp
    /\ req[r].pc = "finish"
    /\ out' = [op |-> "detect_plates", by |-> r, upload |-> req[r].upload,
               status |-> 200, success |-> TRUE,
               plates_detected |-> req[r].plates_detected,
               total_plates |-> Len(req[r].boxes),
               segmented_image |-> annotated_filename(now),
               calls |-> req[r].calls, boxes |-> req[r].boxes]
    /\ req' = [req EXCEPT ![r] = Idle]
    /\ UNCHANGED <<model, vehicles, violations, files, recorded, sessions>>

\* lines 419-433: the annotated image and the answer; `raises` is result.plot()
\* or the write throwing
detect_finish(r, now, raises) ==
    /\ out = NoResp
    /\ req[r].pc = "finish"
    /\ LET st == req[r]
           name == annotated_filename(now)
       IN  IF raises
           THEN /\ out' = Failure(r, st.upload, 500, "Detection error", st.calls)
                /\ files' = files
           ELSE /\ files' = imwrite(files, Append(RESULTS_DIR, name),
                                    [by |-> r, idx |-> -1])
                /\ out' = [op |-> "detect_plates", by |-> r, upload |-> st.upload,
                           status |-> 200, success |-> TRUE,
                           plates_detected |-> st.plates_detected,
                           total_plates |-> Len(st.plates_detected),
                           segmented_image |-> name,
                           calls |-> st.calls, boxes |-> st.boxes]
    /\ req' = [req EXCEPT ![r] = Idle]
    /\ UNCHANGED <<model, vehicles, violations, recorded, sessions>>

(***************************************************************************)
(* The detection service: one POST /detect-plates request at a time, the   *)
(* read endpoints and POST /violations/add beside it, over a store that    *)
(* holds what earlier runs committed.                                      *)
(***************************************************************************)
SeededVehicles == { <<>>, << Vehicle(1, <<"A", "1", "2", "3">>, KwargsAna) >> }

SeededViolations ==
    { <<>>,
      << Violation(1, <<"A", "1", "2", "3">>, "speeding", 2, Some(50)),
         Violation(2, <<"B", "7", " ", "4", "5">>, "parking", 1, None) >> }

InitDetect ==
    /\ model \in {"loaded", "none"}
    /\ vehicles \in SeededVehicles
    /\ violations \in SeededViolations
    /\ files = InstalledFiles
    /\ req = [r \in Req |-> Idle]
    /\ out = NoResp
    /\ sessions = NoSessions
    /\ recorded = [k \in {Key(p) : p \in RawPlates} |->
                      Cardinality({ i \in 1..Len(violations) :
                                      violations[i].plate_number = k })]

NextDetect ==
    \/ \E u \in Uploads, boxes \in BoxLists, raises \in BOOLEAN :
          detect_plates("r1", u, boxes, raises)
    \/ detect_extract("r1", 1)
    \/ \E results \in Readings, raises \in BOOLEAN : detect_ocr("r1", results, raises)
    \/ \E raises \in BOOLEAN : detect_check("r1", raises)
    \/ \E raises \in BOOLEAN : detect_info("r1", raises)
    \/ \E raises \in BOOLEAN : detect_finish("r1", 1, raises)
    \/ \E p \in BasePlates, raises \in BOOLEAN : check_violations(p, raises)
    \/ \E p \in BasePlates, raises \in BOOLEAN : get_vehicle(p, raises)
    \/ \E raises \in BOOLEAN : database_status(raises)
    \/ \E raises \in WriteFaults :
          add_new_violation(<<"a", "1", "2", "3">>, "speeding", Some(75), 1, raises)
    \/ Deliver

SpecDetect == InitDetect /\ [][NextDetect]_vars

(***************************************************************************)
(* Properties of the detection pipeline.                                   *)
(***************************************************************************)
HasLetter(text) ==
    \E i \in 1..Len(text) : text[i] \in {"A", "B", "C", "D", "a", "b", "c", "d"}
HasDigit(text) ==
    \E i \in 1..Len(text) :
       text[i] \in {"0", "1", "2", "3", "4", "5", "6", "7", "8", "9"}
Significant(text) == { i \in 1..Len(text) : text[i] \notin {"-", " "} }

\* a reading the pipeline may act on: non-empty text, mean confidence of at
\* least 0.35, four to ten significant characters with a letter and a digit
Passed(text, num, den) ==
    /\ text # <<>>
    /\ num >= 35 * den
    /\ Cardinality(Significant(text)) \in 4..10
    /\ HasLetter(text)
    /\ HasDigit(text)

Lookups == {"check_plate_violations", "get_vehicle_info"}

\* C1: a request stands at its violation or owner lookup only with a reading
\* that is non-empty and passed the confidence gate and the format validation,
\* a request that has issued a lookup holds such a reading or a record of one,
\* and every record in plates_detected, during the request and in the answer,
\* is for such a reading.
C1_RejectedReadingsReachNoLookup ==
    /\ \A r \in Req :
          req[r] # Idle =>
             /\ req[r].pc \in {"check", "info"} =>
                   Passed(req[r].reading.text, req[r].reading.num,
                          req[r].reading.den)
             /\ \A i \in 1..Len(req[r].plates_detected) :
                   LET rec == req[r].plates_detected[i]
                   IN  Passed(rec.plate_number, rec.ocr_confidence.num,
                              rec.ocr_confidence.den)
             /\ req[r].calls \cap Lookups # {} =>
                   \/ req[r].pc \in {"check", "info"}
                   \/ req[r].plates_detected # <<>>
    /\ (out.op = "detect_plates" /\ out.status = 200) =>
          \A i \in 1..Len(out.plates_detected) :
             LET rec == out.plates_detected[i]
             IN  Passed(rec.plate_number, rec.ocr_confidence.num,
                        rec.ocr_confidence.den)

\* a request answered 200 whose only text recognition was rejected: it made
\* no lookup and reports no plate
C1_Witness ==
    /\ out.op = "detect_plates"
    /\ out.status = 200
    /\ "ocr" \in out.calls
    /\ out.calls \cap Lookups = {}
    /\ out.plates_detected = <<>>

DetectPcs == {"extract", "ocr", "check", "info", "finish"}

DetectStep ==
    \/ \E r \in Req :
          /\ req'[r] # req[r]
          /\ req[r].pc \in DetectPcs \/ req'[r].pc \in DetectPcs
    \/ out = NoResp /\ out'.op = "detect_plates"

\* C7: no step of a detect_plates request, whether it goes on, skips a
\* detection, fails or answers, changes the vehicles or the violations table.
C7_DetectionOnlyReadsTheStore ==
    [][DetectStep => vehicles' = vehicles /\ violations' = violations]_vars

\* an answer reporting a plate with its violations and its owner, read from a
\* store that holds both
C7_Witness ==
    /\ out.op = "detect_plates"
    /\ out.status = 200
    /\ vehicles # <<>>
    /\ violations # <<>>
    /\ \E i \in 1..Len(out.plates_detected) :
          /\ out.plates_detected[i].violations.has_violations
          /\ out.plates_detected[i].owner_info.found

Stages ==
    {"predict", "crop", "imwrite", "ocr", "check_plate_violations",
     "get_vehicle_info"}

\* C8: with the model loaded, an upload that cannot be decoded is answered with
\* a status of the 400 class, and nothing after the decoding has run.
C8_UndecodableUploadAnswered400 ==
    (~model_is_None /\ out.op = "detect_plates" /\ out.upload = "garbage") =>
        /\ out.status \in 400..499
        /\ out.calls \cap Stages = {}

\* C9: while the model is unset, no request enters the pipeline, no file is
\* written, every detect_plates answer is a 503 with nothing invoked, and the
\* store endpoints answer from the tables as they stand.
C9_UnloadedModelAnswers503 ==
    model = "none" =>
        /\ \A r \in Req : req[r] = Idle
        /\ files = InstalledFiles
        /\ out.op = "detect_plates" => out.status = 503 /\ out.calls = {}
        /\ (out.op = "check_violations" /\ out.body.logged = "checked") =>
              LET rows == Matching(violations, Key(out.plate_number))
              IN  /\ out.body.violation_count = Cardinality(rows)
                  /\ out.body.total_fine = SumOfFines(violations, rows)
        /\ (out.op = "get_vehicle" /\ "error" \notin DOMAIN out.body) =>
              out.body.found = KeyPresent(vehicles, Key(out.plate_number))
        /\ (out.op = "database_status" /\ out.status = "connected") =>
              /\ out.total_vehicles = Len(vehicles)
              /\ out.total_violations = Len(violations)

\* with the model unset, a lookup answering the violations on record
C9_Witness ==
    /\ model = "none"
    /\ out.op = "check_violations"
    /\ out.body.logged = "checked"
    /\ out.body.violation_count > 0

(***************************************************************************)
(* The artifact endpoints (main_plates.py, lines 166-201).  A filename is  *)
(* the sequence of its pieces, "/" and "." each a piece of their own.      *)
(***************************************************************************)
\* filename.split("/"), the names between the slashes
RECURSIVE split(_, _, _)
split(filename, i, name) ==
    IF i > Len(filename) THEN <<name>>
    ELSE IF filename[i] = "/" THEN <<name>> \o split(filename, i + 1, <<>>)
    ELSE split(filename, i + 1, Append(name, filename[i]))

\* the parts pathlib keeps: empty names and "." are dropped, ".." stays
parts(filename) ==
    SelectSeq(split(filename, 1, <<>>), LAMBDA n : n # <<>> /\ n # <<".">>)

\* filename.startswith("/")
startswith_slash(filename) == filename # <<>> /\ filename[1] = "/"

\* ".." in filename
contains_dotdot(filename) ==
    \E i \in 1..(Len(filename) - 1) : filename[i] = "." /\ filename[i + 1] = "."

\* results_dir / filename: an absolute filename replaces results_dir
joinpath(base, filename) ==
    IF startswith_slash(filename) THEN parts(filename) ELSE base \o parts(filename)

\* a directory of the disk: the root, the results directory (created at
\* startup, line 55) and every directory a file lies under
isdir(fs, path) ==
    \/ path = <<>>
    \/ path = RESULTS_DIR
    \/ \E f \in DOMAIN fs \cup {RESULTS_DIR} :
          Len(f) > Len(path) /\ SubSeq(f, 1, Len(path)) = path

\* the lookup the operating system makes of a path: ".." steps to the parent
\* of a directory; the result is the entry reached, or `missing`
RECURSIVE lookup(_, _, _)
lookup(fs, at, rest) ==
    IF rest = <<>> THEN [missing |-> FALSE, path |-> at]
    ELSE IF ~isdir(fs, at) THEN [missing |-> TRUE, path |-> at]
    ELSE IF rest[1] = <<".", ".">>
    THEN lookup(fs, IF at = <<>> THEN at ELSE SubSeq(at, 1, Len(at) - 1), Tail(rest))
    ELSE LET to == Append(at, rest[1])
         IN  IF to \in DOMAIN fs \/ isdir(fs, to)
             THEN lookup(fs, to, Tail(rest))
             ELSE [missing |-> TRUE, path |-> to]

\* filepath.exists()
exists(fs, filepath) == ~lookup(fs, <<>>, filepath).missing

\* FileResponse(str(filepath)): the file's content, or a server error when the
\* path names a directory
FileResponse(fs, op, filename, filepath) ==
    LET entry == lookup(fs, <<>>, filepath).path
    IN  IF entry \in DOMAIN fs
        THEN [op |-> op, filename |-> filename, status |-> 200,
              served |-> Some(entry), content |-> Some(fs[entry])]
        ELSE [op |-> op, filename |-> filename, status |-> 500,
              served |-> None, content |-> None]

\* raise HTTPException(status_code, detail)
Refusal(op, filename, status) ==
    [op |-> op, filename |-> filename, status |-> status,
     served |-> None, content |-> None]

\* GET /results/{filename}, lines 168-177
get_result_image(filename) ==
    /\ out = NoResp
    /\ LET filepath == joinpath(RESULTS_DIR, filename)
       IN  out' = IF ~exists(files, filepath)
                  THEN Refusal("get_result_image", filename, 404)
                  ELSE FileResponse(files, "get_result_image", filename, filepath)
    /\ UNCHANGED <<model, vehicles, violations, files, req, recorded, sessions>>

\* GET /cropped-plate/{filename}, lines 179-201
get_cropped_plate(filename) ==
    /\ out = NoResp
    /\ LET filepath == joinpath(RESULTS_DIR, filename)
       IN  out' = IF contains_dotdot(filename) \/ startswith_slash(filename)
                  THEN Refusal("get_cropped_plate", filename, 400)
                  ELSE IF ~exists(files, filepath)
                  THEN Refusal("get_cropped_plate", filename, 404)
                  ELSE FileResponse(files, "get_cropped_plate", filename, filepath)
    /\ UNCHANGED <<model, vehicles, violations, files, req, recorded, sessions>>

\* the names a client may ask for
FileNames ==
    { cropped_filename(0, 1),
      annotated_filename(1),
      <<"missing", ".", "jpg">>,
      <<"plate", ".", ".", "jpg">>,
      <<".", ".">>,
      <<".", ".", "/", "main", ".", "py">>,
      <<".", ".", "/", "missing">>,
      <<".", ".", "/", ".", ".", "/", "etc", "/", "passwd">>,
      <<"/", "etc", "/", "passwd">>,
      <<"/", "missing">> }

\* what earlier detections may have left in the results directory
Artifacts ==
    { Append(RESULTS_DIR, cropped_filename(0, 1)),
      Append(RESULTS_DIR, cropped_filename(1, 1)),
      Append(RESULTS_DIR, annotated_filename(1)) }

InitFiles ==
    /\ model = "loaded"
    /\ vehicles = <<>>
    /\ violations = <<>>
    /\ \E written \in SUBSET Artifacts :
          files = [path \in DOMAIN InstalledFiles \cup written |->
                      IF path \in written THEN "artifact" ELSE "installed"]
    /\ req = [r \in Req |-> Idle]
    /\ out = NoResp
    /\ sessions = NoSessions
    /\ recorded = [k \in {Key(p) : p \in RawPlates} |-> 0]

NextFiles ==
    \/ \E filename \in FileNames : get_result_image(filename)
    \/ \E filename \in FileNames : get_cropped_plate(filename)
    \/ Deliver

SpecFiles == InitFiles /\ [][NextFiles]_vars

\* the names the endpoints are to refuse
Traversal(filename) ==
    \/ filename # <<>> /\ Head(filename) = "/"
    \/ \E i \in 1..Len(filename), j \in 1..Len(filename) :
          j = i + 1 /\ filename[i] = "." /\ filename[j] = "."

\* C10: an answer of GET /results/{filename} or GET /cropped-plate/{filename}
\* for a filename that contains ".." or starts with "/" is a 400 refusal and
\* carries no file, whether or not the path resolves to something on the disk.
C10_TraversalNamesRefused ==
    (out.op \in {"get_result_image", "get_cropped_plate"} /\ Traversal(out.filename)) =>
        /\ out.status = 400
        /\ out.served = None

(***************************************************************************)
(* Properties of the store operations under failure.                       *)
(***************************************************************************)
WriteAnswer ==
    /\ out = NoResp
    /\ out'.op \in {"add_new_violation", "register_new_vehicle"}

OneRowMore(before, after) ==
    /\ Len(after) = Len(before) + 1
    /\ SubSeq(after, 1, Len(before)) = before

\* C11: every add_violation and register_vehicle call ends in an answer of a
\* boolean and a message; when its insert or commit failed the answer is
\* success=false and vehicles and violations hold what they held before the
\* call's write; when the answer is success=true exactly one row has been
\* added, to the table the call writes, and the other table is as it was.
C11_FailedWritesRollBack ==
    [][WriteAnswer =>
          /\ out'.success \in BOOLEAN
          /\ out'.message \in {"Violation recorded", "Vehicle registered",
                               "Vehicle already registered",
                               "Error: OperationalError", "Error: IntegrityError"}
          /\ (out'.raised \in {"commit", "query"}
              \/ out'.message = "Error: IntegrityError") =>
                /\ ~out'.success
                /\ vehicles' = vehicles
                /\ violations' = violations
          /\ (out'.success /\ out'.op = "add_new_violation") =>
                /\ OneRowMore(violations, violations')
                /\ vehicles' = vehicles
          /\ (out'.success /\ out'.op = "register_new_vehicle") =>
                /\ OneRowMore(vehicles, vehicles')
                /\ violations' = violations]_vars

\* a failed commit of add_violation answered over a table that already holds
\* a row, beside a registered vehicle
C11_Witness ==
    /\ out.op = "add_new_violation"
    /\ out.raised = "commit"
    /\ ~out.success
    /\ Len(violations) = 1
    /\ Len(vehicles) = 1

\* the summary of a plate with nothing on record
EmptySummary(summary) ==
    /\ ~summary.has_violations
    /\ summary.violation_count = 0
    /\ summary.violations = <<>>
    /\ summary.total_fine = 0
    /\ summary.last_violation_date = None

\* C12: a lookup whose store read failed still answers: GET /violations/check
\* and the violation lookup of detect_plates get the empty summary (not flagged,
\* count 0, no rows, total_fine 0, no last date), GET /vehicles/info gets a
\* record with found=false, whatever the tables hold.
C12_FailedReadsAnswerEmpty ==
    /\ (out.op = "check_violations" /\ out.body.logged = "error") =>
          EmptySummary(out.body)
    /\ (out.op = "get_vehicle" /\ "error" \in DOMAIN out.body) =>
          out.body.found = FALSE
    /\ \A r \in Req :
          (req[r].pc = "info" /\ req[r].found.logged = "error") =>
              EmptySummary(req[r].found)

\* a failed violation lookup answered empty for a plate with rows on record
C12_Witness ==
    /\ out.op = "check_violations"
    /\ out.body.logged = "error"
    /\ Matching(violations, Key(out.plate_number)) # {}

(***************************************************************************)
(* Properties of the filters of detect_plates.                             *)
(***************************************************************************)
\* request r has just had the text of a crop recognised
OcrStep(r) == req[r].pc = "ocr" /\ req'[r] # req[r]

\* C13: the text recognition of a crop ends in the confidence gate's skip
\* exactly when the text is empty or the mean confidence is below 0.35; every
\* other reading, one of exactly 0.35 included, is handed to the format
\* validation, which either skips it as invalid or lets it on to the lookups.
C13_GateRejectsBelowThreshold ==
    [][\A r \in Req :
          OcrStep(r) =>
             LET reading == req'[r].reading
                 gated == req'[r].logged = "Skipping low OCR confidence"
                 validated == \/ req'[r].logged = "Invalid plate format"
                              \/ req'[r].pc = "check"
             IN  /\ gated <=> (\/ reading.text = <<>>
                               \/ reading.num < 35 * reading.den)
                 /\ validated <=> ~gated]_vars

\* a reading of confidence exactly 0.35 standing at the violation lookup
C13_Witness ==
    \E r \in Req :
       /\ req[r].pc = "check"
       /\ req[r].reading.text # <<>>
       /\ req[r].reading.num = 35 * req[r].reading.den

(***************************************************************************)
(* PlateOCR.validate_plate on its own: the texts are all strings over a     *)
(* letter, a digit, the hyphen and the blank up to MaxText characters,     *)
(* and the strings the format is documented with.                          *)
(***************************************************************************)
MaxText == 4

PlateAlphabet == {"A", "1", "-", " "}

DocumentedTexts ==
    { <<"A", "B", "1">>,
      <<"A", "B", "1", "2">>,
      <<"1", "2", "3", "4", "5", "6", "7", "8", "9", "0", "1">>,
      <<"A", "A", "A", "A", "A", "A">>,
      <<"1", "2", "3", "4", "5", "6">>,
      <<"A", "B", "-", "1", "2", "-", "C", "D">>,
      <<"3", "4", " ", "A", "B", "C", " ", "7", "7">>,
      <<"a", "b", "1", "2">>,
      <<"A", "1", "2", "3", "4", "5", "6", "7", "8", "9">>,
      <<"A", "-", "1", "2", "3", "4", "5", "6", "7", "8", "9">>,
      <<"A", "1", "2", "3", "4", "5", "6", "7", "8", "9", "0">> }

PlateTexts ==
    DocumentedTexts \cup UNION { [1..n -> PlateAlphabet] : n \in 0..MaxText }

\* plate_ocr.validate_plate(plate_text), as main_plates.py:355 calls it
call_validate_plate(plate_text) ==
    /\ out = NoResp
    /\ out' = [op |-> "validate_plate", plate_text |-> plate_text,
               returned |-> validate_plate(plate_text)]
    /\ UNCHANGED <<model, vehicles, violations, files, req, recorded, sessions>>

NextValidate ==
    \/ \E plate_text \in PlateTexts : call_validate_plate(plate_text)
    \/ Deliver

SpecValidate == InitEmpty /\ [][NextValidate]_vars

\* C14: validate_plate returns true exactly for a text whose characters other
\* than hyphens and blanks number four to ten and include a letter and a
\* digit; "AB1", "12345678901", "AAAAAA" and "123456" are turned down, "AB12"
\* and "AB-12-CD" are accepted.
C14_ValidatePlateFormat ==
    out.op = "validate_plate" =>
        /\ out.returned <=>
              /\ Cardinality(Significant(out.plate_text)) >= 4
              /\ Cardinality(Significant(out.plate_text)) <= 10
              /\ HasLetter(out.plate_text)
              /\ HasDigit(out.plate_text)
        /\ out.plate_text \in
              { <<"A", "B", "1">>,
                <<"1", "2", "3", "4", "5", "6", "7", "8", "9", "0", "1">>,
                <<"A", "A", "A", "A", "A", "A">>,
                <<"1", "2", "3", "4", "5", "6">> } => ~out.returned
        /\ out.plate_text \in
              { <<"A", "B", "1", "2">>,
                <<"A", "B", "-", "1", "2", "-", "C", "D">> } => out.returned

\* "AB-12-CD" accepted
C14_Witness ==
    /\ out.op = "validate_plate"
    /\ out.plate_text = <<"A", "B", "-", "1", "2", "-", "C", "D">>
    /\ out.returned

\* the detections the filters before the text recognition drop
DroppedBeforeOcr(det) ==
    \/ (det.box.x2 - det.box.x1) * 20 < Min(Image.h, Image.w)
    \/ (det.box.y2 - det.box.y1) * 20 < Min(Image.h, Image.w)
    \/ region_size(plate_region(det, Image.h, Image.w)) = 0

\* C15: in every 200 answer total_plates is the length of plates_detected and
\* at most the number of detections; the records stand for different
\* detections, in the oracle's order, none of which the size filter or the
\* empty-crop guard drops, each with a reading that passed the confidence gate
\* and the format validation.
C15_TotalCountsSurvivors ==
    (out.op = "detect_plates" /\ out.status = 200) =>
        /\ out.total_plates = Len(out.plates_detected)
        /\ out.total_plates <= Len(out.boxes)
        /\ \A i \in 1..Len(out.plates_detected) :
              LET rec == out.plates_detected[i]
              IN  /\ rec.id \in 0..(Len(out.boxes) - 1)
                  /\ ~DroppedBeforeOcr(out.boxes[rec.id + 1])
                  /\ Passed(rec.plate_number, rec.ocr_confidence.num,
                            rec.ocr_confidence.den)
                  /\ \A j \in 1..(i - 1) : out.plates_detected[j].id < rec.id

\* two detections, the first dropped by the size filter, one plate reported
C15_Witness ==
    /\ out.op = "detect_plates"
    /\ out.status = 200
    /\ out.boxes = <<TooSmall, Masked>>
    /\ out.total_plates = 1

C17_ViolationsWithoutOwner ==
    [][/\ \A r \in Req :
             LET key == Key(req[r].reading.text)
                 rows == Matching(violations, key)
             IN  /\ (/\ req[r].pc = "check"
                     /\ req'[r] # req[r]
                     /\ ~KeyPresent(vehicles, key)
                     /\ req'[r].found.logged = "checked") =>
                        /\ req'[r].found.violation_count = Cardinality(rows)
                        /\ req'[r].found.has_violations = (rows # {})
                        /\ req'[r].found.total_fine = SumOfFines(violations, rows)
                 /\ (/\ req[r].pc = "info"
                     /\ req'[r] # req[r]
                     /\ ~KeyPresent(vehicles, key)) =>
                        LET found == req[r].found
                            rec == req'[r].plates_detected[
                                       Len(req'[r].plates_detected)]
                        IN  /\ ~rec.owner_info.found
                            /\ rec.violations.has_violations = found.has_violations
                            /\ rec.violations.violation_count = found.violation_count
                            /\ rec.violations.total_fine = found.total_fine
                            /\ rec.violations.last_violation_date =
                                  found.last_violation_date
                            /\ Len(rec.violations.violation_details) =
                                  found.violation_count
       /\ (/\ out = NoResp
           /\ out'.op = "get_vehicle"
           /\ ~KeyPresent(vehicles, Key(out'.plate_number))) =>
              ~out'.body.found
       /\ (/\ out = NoResp
           /\ out'.op = "check_violations"
           /\ out'.body.logged = "checked"
           /\ ~KeyPresent(vehicles, Key(out'.plate_number))) =>
              out'.body.violation_count =
                 Cardinality(Matching(violations, Key(out'.plate_number)))]_vars

\* an answer reporting a plate with a violation on record and no owner
C17_Witness ==
    /\ out.op = "detect_plates"
    /\ out.status = 200
    /\ \E i \in 1..Len(out.plates_detected) :
          LET rec == out.plates_detected[i]
          IN  /\ ~KeyPresent(vehicles, Key(rec.plate_number))
              /\ Matching(violations, Key(rec.plate_number)) # {}
              /\ ~rec.owner_info.found
              /\ rec.violations.violation_count = 1
              /\ rec.alert_status.is_flagged

(***************************************************************************)
(* POST /violations/add with violation_type as the client sends it.        *)
(***************************************************************************)
\* models.ViolationType, the values of the enumeration
ViolationType ==
    {"speeding", "red_light", "parking", "no_seatbelt", "expired_license",
     "unregistered", "other"}

\* violation_type: str = Query(...): any string
ViolationTypeInputs == {"speeding", "red_light", "jaywalking"}

NextTypes ==
    \/ \E p \in BasePlates, t \in ViolationTypeInputs, raises \in WriteFaults :
          add_new_violation(p, t, Some(50), 1, raises)
    \/ \E p \in BasePlates, raises \in BOOLEAN : check_violations(p, raises)
    \/ Deliver

SpecTypes == InitEmpty /\ [][NextTypes]_vars

\* C18: every row of violations has a violation_type out of speeding,
\* red-light, parking, no-seatbelt, expired-license, unregistered and other.
C18_ViolationTypeEnumerated ==
    \A i \in 1..Len(violations) :
       violations[i].violation_type \in
          {"speeding", "red-light", "parking", "no-seatbelt", "expired-license",
           "unregistered", "other"}

\* the vehicle row stored under a key
VehicleRow(table, key) ==
    table[CHOOSE i \in 1..Len(table) : table[i].plate_number = key]

\* C19: in a 200 answer, every record whose plate has a vehicle row and whose
\* owner lookup found it (the lookup did not fail) reports the row's
\* owner_name, owner_phone, owner_email, vehicle_type, color and is_active.
C19_OwnerInfoMatchesVehicle ==
    (out.op = "detect_plates" /\ out.status = 200) =>
        \A i \in 1..Len(out.plates_detected) :
           LET rec == out.plates_detected[i]
               key == Key(rec.plate_number)
               row == VehicleRow(vehicles, key)
           IN  (KeyPresent(vehicles, key) /\ rec.owner_info.found) =>
                  /\ rec.owner_info.owner_name = row.owner_name
                  /\ rec.owner_info.owner_phone = row.owner_phone
                  /\ rec.owner_info.owner_email = row.owner_email
                  /\ rec.owner_info.vehicle_type = row.vehicle_type
                  /\ rec.owner_info.vehicle_color = row.color
                  /\ rec.owner_info.is_active = row.is_active

\* request r has just looked at a detection's box
ExtractStep(r) == req[r].pc = "extract" /\ req'[r] # req[r]

\* C20: a detection whose box is narrower or lower than a twentieth of
\* min(h, w) is left at once: the request goes to the next detection having
\* cropped, written, recognised and looked up nothing for it and with
\* plates_detected as it was; a box of at least that width and height is not
\* left by the size filter.
C20_SizeFilterSkipsSmallBoxes ==
    [][\A r \in Req :
          ExtractStep(r) =>
             LET box == req[r].boxes[req[r].idx + 1].box
                 threshold == Min(Image.h, Image.w)
                 small == \/ (box.x2 - box.x1) * 20 < threshold
                          \/ (box.y2 - box.y1) * 20 < threshold
             IN  /\ small =>
                       /\ req'[r].logged = "Skipping small detection"
                       /\ req'[r].idx = req[r].idx + 1
                       /\ req'[r].pc \in {"extract", "finish"}
                       /\ req'[r].calls = req[r].calls
                       /\ req'[r].plates_detected = req[r].plates_detected
                       /\ files' = files
                 /\ ~small =>
                       /\ req'[r].logged # "Skipping small detection"
                       /\ "crop" \in req'[r].calls]_vars

\* a request that kept its first detection and has just left the second one,
\* too small, untouched
C20_Witness ==
    \E r \in Req :
       /\ req[r].pc = "finish"
       /\ req[r].boxes = <<BoxOnly, TooSmall>>
       /\ req[r].logged = "Skipping small detection"
       /\ Len(req[r].plates_detected) = 1

(***************************************************************************)
(* PlateOCR._clean_plate_text on its own: the texts are all strings over   *)
(* a lowercase letter, an uppercase letter, the blank and the tab up to    *)
(* MaxText characters.  The answer carries what a second cleaning of the   *)
(* result returns.                                                         *)
(***************************************************************************)
RawAlphabet == {"a", "B", " ", "\t"}

RawTexts == UNION { [1..n -> RawAlphabet] : n \in 0..MaxText }

\* self._clean_plate_text(text), as ocr.py:120 calls it, and once more
call_clean_plate_text(text) ==
    /\ out = NoResp
    /\ out' = [op |-> "_clean_plate_text", text |-> text,
               returned |-> _clean_plate_text(text),
               again |-> _clean_plate_text(_clean_plate_text(text))]
    /\ UNCHANGED <<model, vehicles, violations, files, req, recorded, sessions>>

NextClean ==
    \/ \E text \in RawTexts : call_clean_plate_text(text)
    \/ Deliver

SpecClean == InitEmpty /\ [][NextClean]_vars

Whitespace == {" ", "\t"}

\* C21: cleaning a cleaned text returns it unchanged, and a cleaned text
\* neither starts nor ends with whitespace, has no two whitespace characters
\* in a row and no lowercase letter.
C21_CleanPlateTextIdempotent ==
    out.op = "_clean_plate_text" =>
        LET t == out.returned
        IN  /\ out.again = t
            /\ t # <<>> => t[1] \notin Whitespace /\ t[Len(t)] \notin Whitespace
            /\ \A i \in 1..(Len(t) - 1) :
                  ~(t[i] \in Whitespace /\ t[i + 1] \in Whitespace)
            /\ \A i \in 1..Len(t) : t[i] \notin {"a", "b", "c", "d"}

\* "a", a blank, a tab and "B" cleaned to "A B"
C21_Witness ==
    /\ out.op = "_clean_plate_text"
    /\ out.text = <<"a", " ", "\t", "B">>
    /\ out.returned = <<"A", " ", "B">>

(***************************************************************************)
(* PlateOCR.read_plate_from_crop on its own: reader.readtext returns up to *)
(* MaxSpans spans, each a text with a confidence in percent points.        *)
(***************************************************************************)
MaxSpans == 2

SpanTexts == { <<"A", "1", "2", "3">>, <<" ", "b", "7">>, <<" ">> }

SpanConfidences == {0, 35, 60, 90}

Spans == { Span(text, conf) : text \in SpanTexts, conf \in SpanConfidences }

SpanLists == UNION { [1..n -> Spans] : n \in 0..MaxSpans }

\* plate_ocr.read_plate_from_crop(plate_region), as main_plates.py:347 calls it
call_read_plate_from_crop(results, raises) ==
    /\ out = NoResp
    /\ out' = [op |-> "read_plate_from_crop", results |-> results,
               raised |-> raises,
               returned |-> read_plate_from_crop(results, raises)]
    /\ UNCHANGED <<model, vehicles, violations, files, req, recorded, sessions>>

NextRead ==
    \/ \E results \in SpanLists, raises \in BOOLEAN :
          call_read_plate_from_crop(results, raises)
    \/ Deliver

SpecRead == InitEmpty /\ [][NextRead]_vars

\* the spans that contribute text: those not blank after trimming
Contributing(results) ==
    { i \in 1..Len(results) :
         \E j \in 1..Len(results[i].text) : results[i].text[j] \notin Whitespace }

RECURSIVE SumOfConfidences(_, _)
SumOfConfidences(results, spans) ==
    IF spans = {} THEN 0
    ELSE LET i == CHOOSE j \in spans : TRUE
         IN  results[i].conf + SumOfConfidences(results, spans \ {i})

\* C22: a reading that did not throw has as confidence 0 when no span was
\* returned, the mean of the confidences of the contributing spans when there
\* are some, and a value in [0, 1]; leaving the blank spans out of the input
\* gives the same text and the same confidence.
C22_ConfidenceIsMeanOfContributingSpans ==
    (out.op = "read_plate_from_crop" /\ ~out.raised) =>
        LET results == out.results
            spans == Contributing(results)
            reading == out.returned
            kept == SelectSeq(results,
                       LAMBDA s : \E j \in 1..Len(s.text) : s.text[j] \notin Whitespace)
            alone == read_plate_from_crop(kept, FALSE)
        IN  /\ results = <<>> => reading.num = 0
            /\ spans # {} =>
                  reading.num * Cardinality(spans) =
                     SumOfConfidences(results, spans) * reading.den
            /\ reading.num >= 0 /\ reading.num <= 100 * reading.den
            /\ reading.text = alone.text
            /\ reading.num * alone.den = alone.num * reading.den

(***************************************************************************)
(* The crop of one detection on its own, lines 279-332 of detect_plates,   *)
(* over an image of Image.h rows and Image.w columns.  A mask with         *)
(* positive pixels is given by the first and last row and column holding   *)
(* one.  A region is the slice image[y0:y1, x0:x1]: it covers the rows     *)
(* y0..y1-1 and the columns x0..x1-1.                                      *)
(***************************************************************************)
MaskRows == {0, 3, 22, 48, 95, 99}
MaskCols == {0, 3, 75, 196, 199}

\* masks.data[idx] of one detection, and the cases without one
Masks ==
    { NoMask, [kind |-> "raises"], [kind |-> "empty"] } \cup
    { [kind |-> "pixels", y_min |-> ya, y_max |-> yb, x_min |-> xa, x_max |-> xb] :
        ya \in MaskRows, yb \in MaskRows, xa \in MaskCols, xb \in MaskCols }

\* the rows of boxes.data
Boxes ==
    { Box(20, 20, 80, 50), Box(120, 60, 180, 98), Box(210, 20, 260, 50),
      Box(30, 30, 35, 60), Box(10, 10, 14, 40), Box(0, 0, 200, 100) }

Detections ==
    { [box |-> b, mask |-> m] : b \in Boxes,
        m \in { k \in Masks : k.kind = "pixels" =>
                                 k.y_min <= k.y_max /\ k.x_min <= k.x_max } }

\* lines 279-332 for one detection: None when the size filter drops it
call_plate_region(det) ==
    /\ out = NoResp
    /\ out' = [op |-> "plate_region", det |-> det,
               returned |-> IF too_small(det.box, Image.h, Image.w) THEN None
                            ELSE Some(plate_region(det, Image.h, Image.w))]
    /\ UNCHANGED <<model, vehicles, violations, files, req, recorded, sessions>>

NextRegion ==
    \/ \E det \in Detections : call_plate_region(det)
    \/ Deliver

SpecRegion == InitEmpty /\ [][NextRegion]_vars

\* C23: the crop of a detection that passes the size filter and has a mask
\* with a positive pixel covers the rows max(0, ymin-5)..min(H-1, ymax+5) and
\* the columns max(0, xmin-5)..min(W-1, xmax+5), ymin..ymax and xmin..xmax
\* being the rows and columns of the mask's positive pixels.
C23_MaskCropIsBoxPlusFive ==
    (/\ out.op = "plate_region"
     /\ out.returned # None
     /\ out.det.mask.kind = "pixels") =>
        LET mask == out.det.mask
            region == out.returned[1]
        IN  /\ region.y0 = Max(0, mask.y_min - 5)
            /\ region.y1 - 1 = Min(Image.h - 1, mask.y_max + 5)
            /\ region.x0 = Max(0, mask.x_min - 5)
            /\ region.x1 - 1 = Min(Image.w - 1, mask.x_max + 5)

\* C24: the crop of a detection that has no mask, whose mask extraction
\* throws or whose mask has no positive pixel holds the pixels of the image
\* that lie in the box widened on every side by a tenth of
\* max(box_width, box_height) in whole pixels; a detection whose mask has a
\* positive pixel gets the crop of the mask path, bounded by the mask's rows
\* and columns and not by the box.
C24_BoxFallbackPadsByTenth ==
    (out.op = "plate_region" /\ out.returned # None) =>
        LET box == out.det.box
            mask == out.det.mask
            region == out.returned[1]
            width == box.x2 - box.x1
            height == box.y2 - box.y1
            padding == (IF width > height THEN width ELSE height) \div 10
            rows == { y \in 0..(Image.h - 1) : region.y0 <= y /\ y < region.y1 }
            cols == { x \in 0..(Image.w - 1) : region.x0 <= x /\ x < region.x1 }
            box_rows == { y \in 0..(Image.h - 1) :
                            box.y1 - padding <= y /\ y < box.y2 + padding }
            box_cols == { x \in 0..(Image.w - 1) :
                            box.x1 - padding <= x /\ x < box.x2 + padding }
        IN  /\ mask.kind \in {"none", "raises", "empty"} =>
                   rows \X cols = box_rows \X box_cols
            /\ mask.kind = "pixels" =>
                   /\ \A y \in rows : mask.y_min - 5 <= y /\ y <= mask.y_max + 5
                   /\ \A x \in cols : mask.x_min - 5 <= x /\ x <= mask.x_max + 5
                   /\ mask.y_min..mask.y_max \subseteq rows
                   /\ mask.x_min..mask.x_max \subseteq cols

\* a box higher than wide whose mask extraction throws, cropped by its box
C24_Witness ==
    /\ out.op = "plate_region"
    /\ out.det.box = Box(30, 30, 35, 60)
    /\ out.det.mask.kind = "raises"
    /\ out.returned = Some([y0 |-> 27, y1 |-> 63, x0 |-> 27, x1 |-> 38])

\* C25: a detection past the size filter whose crop, of the mask path or of
\* the box path, has no area is left at once: no crop file is written, the
\* text recognition and the lookups are not called, plates_detected stays as
\* it was, and no 200 answer holds a record of such a detection.
C25_EmptyCropIsSkipped ==
    /\ [][\A r \in Req :
             ExtractStep(r) =>
                LET det == req[r].boxes[req[r].idx + 1]
                    box == det.box
                    region == plate_region(det, Image.h, Image.w)
                    small == \/ (box.x2 - box.x1) * 20 < Min(Image.h, Image.w)
                             \/ (box.y2 - box.y1) * 20 < Min(Image.h, Image.w)
                    empty == region.y1 <= region.y0 \/ region.x1 <= region.x0
                IN  (~small /\ empty) =>
                       /\ req'[r].logged = "Plate region is empty, skipping"
                       /\ req'[r].idx = req[r].idx + 1
                       /\ req'[r].pc \in {"extract", "finish"}
                       /\ req'[r].calls \subseteq req[r].calls \cup {"crop"}
                       /\ req'[r].plates_detected = req[r].plates_detected
                       /\ files' = files]_vars
    /\ []((out.op = "detect_plates" /\ out.status = 200) =>
             \A i \in 1..Len(out.plates_detected) :
                LET region == plate_region(out.boxes[out.plates_detected[i].id + 1],
                                           Image.h, Image.w)
                IN  region.y1 > region.y0 /\ region.x1 > region.x0)

\* a request that has just left its first detection, a box beside the image,
\* with no file written
C25_Witness ==
    \E r \in Req :
       /\ req[r].pc = "extract"
       /\ req[r].boxes = <<OffImage, MaskRaises>>
       /\ req[r].idx = 1
       /\ req[r].logged = "Plate region is empty, skipping"
       /\ "imwrite" \notin req[r].calls
       /\ files = InstalledFiles

(***************************************************************************)
(* PlateOCR._preprocess_plate on its own.  An image is its height, its     *)
(* width, its number of channels and the enhancement steps applied to it   *)
(* so far.  `fault` names the OpenCV call that throws, `skew` what the     *)
(* line detection of _deskew_image finds.                                  *)
(***************************************************************************)
PlateHeights == {20, 29, 30, 49, 50, 60}
PlateWidths == {90, 99, 100, 149, 150, 200}

PlateImages ==
    { [h |-> h, w |-> w, channels |-> c, applied |-> <<>>] :
        h \in PlateHeights, w \in PlateWidths, c \in {1, 3} }

\* the enhancement steps after the deskew, in the order of lines 136-180
Enhancements ==
    <<"grayscale", "upscale", "denoise", "clahe", "stretch", "sharpen",
      "binarize", "morphology">>

Faults == {"none"} \cup { Enhancements[i] : i \in DOMAIN Enhancements }

Skews == {"no lines", "level", "skewed", "raises"}

\* one OpenCV call on the image
applied_to(image, step) == [image EXCEPT !.applied = Append(@, step)]

\* cv2.resize(src, dsize): dsize is (width, height)
resize(image, dsize) ==
    [applied_to(image, "upscale") EXCEPT !.w = dsize[1], !.h = dsize[2]]

\* lines 186-217: warpAffine with dsize (w, h) when the median angle is
\* above one degree; the image itself when there are no lines, when the
\* angle is small and when anything throws
_deskew_image(image, skew) ==
    IF skew = "skewed" THEN applied_to(image, "deskew") ELSE image

\* a factor that asks for both sides to be small
upscale_factor_both_small(height, width) ==
    IF height < 30 /\ width < 100 THEN 4
    ELSE IF height < 50 /\ width < 150 THEN 3
    ELSE 2

\* lines 145-151
upscale_factor(height, width) ==
    IF height < 30 \/ width < 100 THEN 4
    ELSE IF height < 50 \/ width < 150 THEN 3
    ELSE 2

\* lines 129-184: one try around every step; `except Exception` returns the
\* image the function was given
_preprocess_plate(image, fault, skew) ==
    LET gray == IF image.channels = 3
                THEN [applied_to(image, "grayscale") EXCEPT !.channels = 1]
                ELSE image
        deskewed == _deskew_image(gray, skew)
        scale == upscale_factor(deskewed.h, deskewed.w)
        resized == IF scale > 1
                   THEN resize(deskewed, <<deskewed.w * scale, deskewed.h * scale>>)
                   ELSE deskewed
        denoised == applied_to(resized, "denoise")
        equalized == applied_to(denoised, "clahe")
        stretched == applied_to(equalized, "stretch")
        sharpened == applied_to(stretched, "sharpen")
        binarized == applied_to(sharpened, "binarize")
        closed == applied_to(binarized, "morphology")
        thrown == \/ fault = "grayscale" /\ image.channels = 3
                  \/ fault = "upscale" /\ scale > 1
                  \/ fault \in {"denoise", "clahe", "stretch", "sharpen",
                                 "binarize", "morphology"}
    IN  IF thrown THEN image ELSE closed

\* self._preprocess_plate(plate_img), as ocr.py:97 calls it
call_preprocess_plate(image, fault, skew) ==
    /\ out = NoResp
    /\ out' = [op |-> "_preprocess_plate", image |-> image, fault |-> fault,
               skew |-> skew, returned |-> _preprocess_plate(image, fault, skew)]
    /\ UNCHANGED <<model, vehicles, violations, files, req, recorded, sessions>>

NextPreprocess ==
    \/ \E image \in PlateImages, fault \in Faults, skew \in Skews :
          call_preprocess_plate(image, fault, skew)
    \/ Deliver

SpecPreprocess == InitEmpty /\ [][NextPreprocess]_vars

\* the steps of the sequence other than `step`, in their order
Without(steps, step) == SelectSeq(steps, LAMBDA x : x # step)

\* C26: when one enhancement step of _preprocess_plate throws, the image
\* returned has had every other step applied, in order, and only the step
\* that threw left out; when _deskew_image throws the image goes on through
\* all the enhancement steps undeskewed; _preprocess_plate always returns an
\* image to its caller.
C26_FailingStepAloneIsSkipped ==
    out.op = "_preprocess_plate" =>
        LET image == out.image
            wanted == IF image.channels = 3 THEN Enhancements
                      ELSE Tail(Enhancements)
            done == Without(out.returned.applied, "deskew")
        IN  /\ out.fault = "none" => done = wanted
            /\ out.fault # "none" => done = Without(wanted, out.fault)
            /\ out.skew = "raises" => "deskew" \notin
                   { out.returned.applied[i] : i \in DOMAIN out.returned.applied }

\* C27: the image _preprocess_plate returns when no step throws is the
\* input's height and width times a factor that is 4 when the height is
\* below 30 or the width below 100, else 3 when the height is below 50 or the
\* width below 150, else 2, and so never less than twice the input's size.
C27_UpscaleFactorFromSize ==
    (out.op = "_preprocess_plate" /\ out.fault = "none") =>
        LET h == out.image.h
            w == out.image.w
            scale == CASE h < 30 \/ w < 100 -> 4
                       [] ~(h < 30 \/ w < 100) /\ (h < 50 \/ w < 150) -> 3
                       [] OTHER -> 2
        IN  /\ out.returned.h = h * scale
            /\ out.returned.w = w * scale
            /\ out.returned.h >= 2 * h
            /\ out.returned.w >= 2 * w
            /\ \E i \in DOMAIN out.returned.applied :
                   out.returned.applied[i] = "upscale"

\* a low and wide plate, 29 by 200, returned 116 by 800
C27_Witness ==
    /\ out.op = "_preprocess_plate"
    /\ out.fault = "none"
    /\ out.image.h = 29 /\ out.image.w = 200
    /\ out.returned.h = 116 /\ out.returned.w = 800

(***************************************************************************)
(* Two clients of POST /detect-plates.  The handler is an `async def`      *)
(* whose only await is `await file.read()`, before anything is written:    *)
(* the event loop runs the body of one handler at a time, so a request     *)
(* enters the pipeline when no other request is in it.  Every write reads  *)
(* the clock again; the clock has a resolution of one second and never     *)
(* goes back.                                                              *)
(***************************************************************************)
ConcurrentBoxLists == { <<BoxOnly>>, <<Masked, BoxOnly>> }

ConcurrentReadings == { <<>>, << Span(<<"A", "1", "2", "3">>, 90) >> }

\* no other handler's body is being run
NoOtherHandler(r) == \A q \in Req \ {r} : req[q] = Idle

\* datetime.now(): no file in the results directory is stamped later
NotBefore(now) ==
    \A later \in Clock :
       later > now =>
          /\ Append(RESULTS_DIR, annotated_filename(later)) \notin DOMAIN files
          /\ \A idx \in 0..1 :
                Append(RESULTS_DIR, cropped_filename(idx, later)) \notin DOMAIN files

NextConcurrent ==
    \/ \E r \in Req, boxes \in ConcurrentBoxLists, raises \in BOOLEAN :
          NoOtherHandler(r) /\ detect_plates(r, "jpeg", boxes, raises)
    \/ \E r \in Req, now \in Clock : NotBefore(now) /\ detect_extract(r, now)
    \/ \E r \in Req, results \in ConcurrentReadings : detect_ocr(r, results, FALSE)
    \/ \E r \in Req : detect_check(r, FALSE)
    \/ \E r \in Req : detect_info(r, FALSE)
    \/ \E r \in Req, now \in Clock, raises \in BOOLEAN :
          NotBefore(now) /\ detect_finish(r, now, raises)
    \/ Deliver

SpecConcurrent == InitDetect /\ [][NextConcurrent]_vars

\* the path names an annotated image in the results directory
IsAnnotated(path) == Len(path) = 3 /\ path[3][1] = "plate_detection_"

\* C28: two detect_plates requests do not disturb each other's artifacts.
\* When a request answers 200, the file each of its records names in
\* cropped_plate_image holds the crop that request wrote for that detection
\* and the file named in segmented_image holds the annotated image it wrote;
\* and an annotated image, once written and named in its request's answer, is
\* never replaced by the image of another request.
C28_RequestsKeepTheirArtifacts ==
    [][/\ \A r \in Req :
             (/\ req[r].pc = "finish"
              /\ req'[r] = Idle
              /\ out'.status = 200) =>
                /\ \A i \in 1..Len(out'.plates_detected) :
                      LET rec == out'.plates_detected[i]
                      IN  files'[Append(RESULTS_DIR, rec.cropped_plate_image)] =
                             [by |-> r, idx |-> rec.id]
                /\ files'[Append(RESULTS_DIR, out'.segmented_image)] =
                      [by |-> r, idx |-> -1]
       /\ \A path \in DOMAIN files :
             IsAnnotated(path) => files'[path].by = files[path].by]_vars

(***************************************************************************)
(* The store session of a request.  `db: Session = Depends(get_db)` runs   *)
(* get_db up to its yield before the handler is called and the rest of it  *)
(* when the handler has returned or raised, before the response is sent.   *)
(* MaxSessions bounds the number of requests of a behaviour.               *)
(***************************************************************************)
\* a session maker that hands every caller the one session it has made
SessionLocal_shared(made) ==
    IF made = <<>> THEN <<[open |-> TRUE]>> ELSE made

\* SessionLocal(): a new session, open
SessionLocal(made) == Append(made, [open |-> TRUE])

\* database.py lines 31-35: db = SessionLocal(); yield db
get_db_yield(r) ==
    /\ out = NoResp
    /\ req[r] = Idle
    /\ sessions.db[r] = 0
    /\ Len(sessions.made) < MaxSessions
    /\ LET made == SessionLocal(sessions.made)
       IN  sessions' = [made |-> made,
                        db |-> [sessions.db EXCEPT ![r] = Len(made)]]
    /\ UNCHANGED <<model, vehicles, violations, files, req, out, recorded>>

\* database.py lines 36-37: finally: db.close(), once the handler of r has
\* returned or raised
get_db_finally(r) ==
    /\ out.op = "detect_plates"
    /\ out.by = r
    /\ sessions.db[r] # 0
    /\ sessions' = [made |-> [sessions.made EXCEPT ![sessions.db[r]].open = FALSE],
                    db |-> [sessions.db EXCEPT ![r] = 0]]
    /\ UNCHANGED <<model, vehicles, violations, files, req, out, recorded>>

SessionBoxLists == { <<>>, <<BoxOnly>> }

\* the handler of request r, called with the session get_db yielded
Handler(r) ==
    \/ \E upload \in Uploads, boxes \in SessionBoxLists, raises \in BOOLEAN :
          /\ sessions.db[r] # 0
          /\ NoOtherHandler(r)
          /\ detect_plates(r, upload, boxes, raises)
    \/ detect_extract(r, 1)
    \/ \E results \in ConcurrentReadings, raises \in BOOLEAN :
          detect_ocr(r, results, raises)
    \/ \E raises \in BOOLEAN : detect_check(r, raises)
    \/ \E raises \in BOOLEAN : detect_info(r, raises)
    \/ \E raises \in BOOLEAN : detect_finish(r, 1, raises)

\* the response is sent when the dependency of its request has been left
Send == out.op = "detect_plates" /\ sessions.db[out.by] = 0 /\ Deliver

NextSession ==
    \/ \E r \in Req : get_db_yield(r)
    \/ \E r \in Req : Handler(r)
    \/ \E r \in Req : get_db_finally(r)
    \/ Send

\* the server runs a handler that was called to its end, leaves the
\* dependency and sends the response; requests need not arrive
SpecSession ==
    /\ InitDetect
    /\ [][NextSession]_vars
    /\ \A r \in Req : WF_vars(Handler(r)) /\ WF_vars(get_db_finally(r))
    /\ WF_vars(Send)

\* C29: a request that holds a session from get_db comes to hold none, the
\* session closed, whether its handler returns or raises; no two requests
\* hold the same session, a handler runs with the session of its request
\* open, and a session no request holds is closed.
C29_SessionIsReleased ==
    /\ \A r \in Req : (sessions.db[r] # 0) ~> (sessions.db[r] = 0)
    /\ [](\A r \in Req : \A q \in Req \ {r} :
             sessions.db[r] # 0 => sessions.db[q] # sessions.db[r])
    /\ [](\A r \in Req :
             req[r].pc \in DetectPcs =>
                /\ sessions.db[r] # 0
                /\ sessions.made[sessions.db[r]].open)
    /\ [](\A i \in 1..Len(sessions.made) :
             sessions.made[i].open => \E r \in Req : sessions.db[r] = i)

\* a handler that raised, its session closed, while another request holds
\* a session of its own
C29_Witness ==
    /\ out.op = "detect_plates"
    /\ out.status = 500
    /\ sessions.db[out.by] = 0
    /\ \E i \in 1..Len(sessions.made) : ~sessions.made[i].open
    /\ \E q \in Req : sessions.db[q] # 0 /\ sessions.made[sessions.db[q]].open

(***************************************************************************)
(* The crop files of a request against its answer.                         *)
(***************************************************************************)
\* the path names a crop in the results directory
IsCrop(path) == Len(path) = 3 /\ path[3][1] = "plate_"

=============================================================================
